---- MODULE Spec2Model ----
(***************************************************************************)
(* Gaussian elimination solver of src/gauss.cpp: matrix_t / vector_t,      *)
(* initializeFromSeed, gauss (TBB parallel_reduce pivot search and         *)
(* parallel_for elimination sweep, back substitution), check and main.     *)
(*                                                                         *)
(* Two specifications:                                                     *)
(*   Spec      gauss(A, B, X) on bounded input systems, with the tasks of  *)
(*             parallel_reduce / parallel_for as interleaved steps;        *)
(*   SpecMain  main(): option parsing, initializeFromSeed, the solve       *)
(*             branch on the parallel flag, result print, re-init + check. *)
(*                                                                         *)
(* Spec lets the tasks of one parallel algorithm take their steps in any   *)
(* order and under any splitting of the blocked_range; the one-thread      *)
(* schedule main sets up with task_scheduler_init init(1) is among them.   *)
(*                                                                         *)
(* A double is modelled exactly, as a normalised fraction <<num, den>>     *)
(* with den > 0, and the IEEE specials as den = 0: <<1,0>> = +inf,         *)
(* <<-1,0>> = -inf, <<0,0>> = NaN.  Rounding and the sign of zero are not  *)
(* modelled (a zero divisor counts as +0).                                 *)
(***************************************************************************)
EXTENDS Integers, Sequences, FiniteSets, TLC

(* ------------------------------ bounds -------------------------------- *)
\* largest matrix dimension of the input systems of Spec
MaxN == 4
\* first-column entries of the input systems of Spec range over 0..MaxVal
MaxVal == 2
\* SpecMain: most options getopt returns in one run
MaxArgs == 4
\* SpecMain: largest value given to -n for which the system is built
MaxSize == 3
\* SpecMain: values given to -r are 0..MaxSeed
MaxSeed == 1
\* SpecMain: values given to -g are 0..MaxRange
MaxRange == 2

(* ------------------------- program constants -------------------------- *)
GrainSize == 2
DefaultSeed == 411
DefaultSize == 2048
DefaultRange == 65536

(* ------------------------- double arithmetic -------------------------- *)
IAbs(x) == IF x < 0 THEN -x ELSE x
ISgn(x) == IF x < 0 THEN -1 ELSE IF x > 0 THEN 1 ELSE 0

RECURSIVE GCD(_, _)
GCD(a, b) == IF b = 0 THEN a ELSE GCD(b, a % b)

Norm(p, q) ==
  IF q = 0 THEN <<ISgn(p), 0>>
  ELSE LET g == GCD(IAbs(p), IAbs(q))
           s == IF q < 0 THEN -1 ELSE 1
       IN  <<(s * p) \div g, (s * q) \div g>>

R(k) == <<k, 1>>
NaN == <<0, 0>>
Zero == <<0, 1>>

FAdd(a, b) ==
  IF a[2] = 0 /\ b[2] = 0 THEN (IF a = b THEN a ELSE NaN)
  ELSE Norm(a[1] * b[2] + b[1] * a[2], a[2] * b[2])
FNeg(a) == <<-a[1], a[2]>>
FSub(a, b) == FAdd(a, FNeg(b))
FMul(a, b) == Norm(a[1] * b[1], a[2] * b[2])
FDiv(a, b) ==
  Norm(a[1] * b[2] * (IF b[1] < 0 THEN -1 ELSE 1), a[2] * IAbs(b[1]))
FAbs(a) == <<IAbs(a[1]), a[2]>>
\* a > b, false when either is NaN
FGt(a, b) ==
  /\ a # NaN
  /\ b # NaN
  /\ IF a[2] = 0 /\ b[2] = 0 THEN a[1] > b[1]
     ELSE a[1] * b[2] > b[1] * a[2]
FLt(a, b) == FGt(b, a)
\* a == b, false when either is NaN
FEq(a, b) == a # NaN /\ a = b
\* std::max(a, b) == (a < b) ? b : a
FMax(a, b) == IF FLt(a, b) THEN b ELSE a

(* ------------------------------- state -------------------------------- *)
VARIABLES
  n,          \* A.getSize(): the dimension
  M,          \* matrix_t::M, the row handles: M[r] is the buffer of row r
  buf,        \* the row buffers, buf[h][c]
  B, X,       \* vector_t B and X
  i,          \* gauss: the column of the elimination loop
  bi,         \* gauss: the index of the back-substitution loop
  pc,         \* gauss: the position of the calling thread
  big, row,   \* gauss: the locals big and row of the loop body
  pending,    \* subranges of the running parallel algorithm not yet started
  running,    \* started tasks: subrange -> [kind, col, k, st, row]
  red,        \* the value parallel_reduce returned (discarded by gauss)
  bigReaders, bigWriters,  \* tasks of the current reduction that read / wrote big
  rowWriters, \* per row, the tasks of the current sweep that wrote it
  sweep0,     \* buf and B as they were when the current sweep began
  A0, B0,     \* the system as it was given to gauss / first initialised
  mpc,        \* main: position
  seed, size, range, verbose, docheck, parallel,  \* main: the config vars
  nargs,      \* main: options parsed so far
  gaussRan,   \* main: gauss(A, B, X) has returned
  out         \* main: what was written to standard output, as a sequence

gvars == <<n, M, buf, B, X, i, bi, pc, big, row, pending, running, red,
           bigReaders, bigWriters, rowWriters, sweep0, A0, B0>>
mvars == <<mpc, seed, size, range, verbose, docheck, parallel, nargs,
           gaussRan, out>>
gvars_but_pc == <<n, M, buf, B, X, i, bi, big, row, pending, running, red,
                  bigReaders, bigWriters, rowWriters, sweep0, A0, B0>>
vars == <<gvars, mvars>>

Idx == 0 .. (n - 1)
\* A[r][c] of the source: through the row handle
At(r, c) == buf[M[r]][c]
\* the matrix as the caller sees it
Logical(m, bf) == [r \in DOMAIN m |-> bf[m[r]]]
IdHandles(d) == [r \in 0 .. (d - 1) |-> r]
NoTasks == [c \in {} |-> 0]

(* ---------------------- std::swap on two indices ---------------------- *)
SwapAt(f, a, b) == [f EXCEPT ![a] = f[b], ![b] = f[a]]

(* --------------------- the elimination of one row --------------------- *)
\* double c = -A[k][i] / A[i][i];
ElimFactor(m, bf, col, k) == FDiv(FNeg(bf[m[k]][col]), bf[m[col]][col])

\* mutant of ElimRowBuf: the j loop starts at i + 1, A[k][i] is left as it is
ElimRowBufKeepsColumn(m, bf, dim, col, k) ==
  LET c == ElimFactor(m, bf, col, k)
  IN  [bf EXCEPT ![m[k]] =
        [j \in 0 .. (dim - 1) |->
           IF j <= col THEN bf[m[k]][j]
           ELSE FAdd(bf[m[k]][j], FMul(c, bf[m[col]][j]))]]

\* the j loop of row k: A[k][i] = 0, A[k][j] += c * A[i][j] for j > i
ElimRowBuf(m, bf, dim, col, k) ==
  LET c == ElimFactor(m, bf, col, k)
  IN  [bf EXCEPT ![m[k]] =
        [j \in 0 .. (dim - 1) |->
           IF j < col THEN bf[m[k]][j]
           ELSE IF j = col THEN Zero
           ELSE FAdd(bf[m[k]][j], FMul(c, bf[m[col]][j]))]]

\* B[k] += c * B[i];
ElimRowB(m, bf, b, col, k) ==
  [b EXCEPT ![k] = FAdd(b[k], FMul(ElimFactor(m, bf, col, k), b[col]))]

\* the sweep k = i+1 .. n-1 as one thread runs it
RECURSIVE SweepSeq(_, _, _, _, _, _)
SweepSeq(m, bf, b, dim, col, k) ==
  IF k >= dim THEN [buf |-> bf, B |-> b]
  ELSE SweepSeq(m, ElimRowBuf(m, bf, dim, col, k),
                ElimRowB(m, bf, b, col, k), dim, col, k + 1)

(* --------------------------- the pivot search ------------------------- *)
\* big after the loop over k = from .. dim-1 run by one thread
RECURSIVE SeqBig(_, _, _, _, _, _)
SeqBig(m, bf, dim, col, k, bg) ==
  IF k >= dim THEN bg
  ELSE SeqBig(m, bf, dim, col, k + 1,
              IF FGt(FAbs(bf[m[k]][col]), bg) THEN FAbs(bf[m[k]][col]) ELSE bg)

\* the join functor of parallel_reduce: [&](int a, int b)
Combine(a, b) == IF FGt(FAbs(At(a, i)), FAbs(At(b, i))) THEN a ELSE b

(* -------------------------- back substitution ------------------------- *)
\* one iteration of the loop over i = n-1 .. 0
BackStep(m, bf, b, x, k) ==
  LET xk == FDiv(b[k], bf[m[k]][k])
  IN  [X |-> [x EXCEPT ![k] = xk],
       B |-> [r \in DOMAIN b |->
                IF r < k THEN FSub(b[r], FMul(bf[m[r]][k], xk)) ELSE b[r]]]

RECURSIVE BackSeq(_, _, _, _, _)
BackSeq(m, bf, b, x, k) ==
  IF k < 0 THEN [X |-> x, B |-> b]
  ELSE LET s == BackStep(m, bf, b, x, k)
       IN  BackSeq(m, bf, s.B, s.X, k - 1)

(* --------------------- gauss() run by one thread ----------------------- *)
RECURSIVE ElimSeq(_, _, _, _, _)
ElimSeq(m, bf, b, dim, col) ==
  IF col >= dim THEN [sing |-> FALSE, col |-> dim, M |-> m, buf |-> bf, B |-> b]
  ELSE LET bg == SeqBig(m, bf, dim, col, col + 1, FAbs(bf[m[col]][col]))
           \* the row of line 99: no task writes it
           rw == col
           m2 == SwapAt(m, col, rw)
           b2 == SwapAt(b, col, rw)
           s  == SweepSeq(m2, bf, b2, dim, col, col + 1)
       IN  IF FEq(bg, Zero)
           THEN [sing |-> TRUE, col |-> col, M |-> m, buf |-> bf, B |-> b]
           ELSE ElimSeq(m2, s.buf, s.B, dim, col + 1)

GaussRun(m, bf, b, x, dim) ==
  LET e == ElimSeq(m, bf, b, dim, 0)
      s == BackSeq(e.M, e.buf, e.B, x, dim - 1)
  IN  IF e.sing THEN [sing |-> TRUE, col |-> e.col, M |-> e.M, buf |-> e.buf,
                      B |-> e.B, X |-> x]
      ELSE [sing |-> FALSE, col |-> dim, M |-> e.M, buf |-> e.buf,
            B |-> s.B, X |-> s.X]

(* ------------------------------ check() -------------------------------- *)
MatRow(m, bf, x, dim, r) ==
  LET RECURSIVE Acc(_, _)
      Acc(j, ans) == IF j >= dim THEN ans
                     ELSE Acc(j + 1, FAdd(ans, FMul(bf[m[r]][j], x[j])))
  IN  Acc(0, Zero)

\* ratio < 0.999999, for ratio = |..| >= 0
RatioLow(a) ==
  /\ a # NaN
  /\ a[2] # 0
  /\ a[1] < a[2]
  /\ (a[2] - a[1]) > (a[2] \div 1000000)
\* ratio > 1.00001
RatioHigh(a) ==
  /\ a # NaN
  /\ \/ a[2] = 0
     \/ /\ a[1] > a[2]
        /\ (a[1] - a[2]) > (a[2] \div 100000)

RowFails(m, bf, b, x, dim, r) ==
  LET ans == MatRow(m, bf, x, dim, r)
      ratio == FMax(FAbs(FDiv(ans, b[r])), FAbs(FDiv(b[r], ans)))
  IN  RatioLow(ratio) \/ RatioHigh(ratio)

\* the first index check() reports, or -1 for "Verification succeeded"
RECURSIVE CheckFrom(_, _, _, _, _, _)
CheckFrom(m, bf, b, x, dim, r) ==
  IF r >= dim THEN -1
  ELSE IF RowFails(m, bf, b, x, dim, r) THEN r
  ELSE CheckFrom(m, bf, b, x, dim, r + 1)

Check(m, bf, b, x, dim) == CheckFrom(m, bf, b, x, dim, 0)

(* ------------------------ the input systems of Spec -------------------- *)
Shapes == {"ones", "ident", "skew"}
Entry(shape, r, c) ==
  CASE shape = "ones"  -> 1
    [] shape = "ident" -> IF r = c THEN 1 ELSE 0
    [] shape = "skew"  -> IF r = c THEN 2 ELSE IF r < c THEN 1 ELSE -1

\* a first column drawn from 0..MaxVal, the other columns of one shape
FamilyOf(d) ==
  { [n |-> d,
     A |-> [r \in 0 .. (d - 1) |-> [c \in 0 .. (d - 1) |->
              IF c = 0 THEN R(col0[r]) ELSE R(Entry(sh, r, c))]],
     B |-> [r \in 0 .. (d - 1) |-> R(r + 1)]] :
    sh \in Shapes, col0 \in [0 .. (d - 1) -> 0 .. MaxVal] }

Textbook ==
  [n |-> 3,
   A |-> (0 :> (0 :> R(2)  @@ 1 :> R(1)  @@ 2 :> R(-1)) @@
          1 :> (0 :> R(-3) @@ 1 :> R(-1) @@ 2 :> R(2))  @@
          2 :> (0 :> R(-2) @@ 1 :> R(1)  @@ 2 :> R(2))),
   B |-> (0 :> R(8) @@ 1 :> R(-11) @@ 2 :> R(-3))]

InputSystems == UNION {FamilyOf(d) : d \in 1 .. MaxN} \cup {Textbook}

MainIdle ==
  /\ mpc = "gauss"
  /\ seed = DefaultSeed
  /\ size = DefaultSize
  /\ range = DefaultRange
  /\ verbose = FALSE
  /\ docheck = TRUE
  /\ parallel = FALSE
  /\ nargs = 0
  /\ gaussRan = FALSE
  /\ out = <<>>

Init ==
  /\ \E s \in InputSystems :
       /\ n = s.n
       /\ M = IdHandles(s.n)
       /\ buf = s.A
       /\ B = s.B
       /\ X = [k \in 0 .. (s.n - 1) |-> NaN]
       /\ A0 = s.A
       /\ B0 = s.B
       /\ rowWriters = [r \in 0 .. (s.n - 1) |-> {}]
       /\ sweep0 = [buf |-> s.A, B |-> s.B]
  /\ i = 0
  /\ bi = -1
  /\ pc = "loop"
  /\ big = Zero
  /\ row = 0
  /\ pending = {}
  /\ running = NoTasks
  /\ red = 0
  /\ bigReaders = {}
  /\ bigWriters = {}
  /\ MainIdle

(* ------------------ blocked_range and the task barrier ----------------- *)
\* mutant of ReduceRange: the search starts one row late
ReduceRangeSkipsRow(col) == IF col + 2 < n THEN {<<col + 2, n>>} ELSE {}
\* parallel_reduce's blocked_range<int>(i+1, n, 2): empty when i+1 >= n
ReduceRange(col) == IF col + 1 < n THEN {<<col + 1, n>>} ELSE {}
\* mutant of ElimRange: the sweep starts at the pivot row
ElimRangeFromPivot(col) == {<<col, n>>}
\* parallel_for's blocked_range<int>(i+1, n, 2)
ElimRange(col) == IF col + 1 < n THEN {<<col + 1, n>>} ELSE {}
\* is_divisible(): grainsize < size()
Divisible(c) == c[2] - c[1] > GrainSize
\* the splitting constructor: [begin, middle) and [middle, end)
Halves(c) ==
  LET mid == c[1] + ((c[2] - c[1]) \div 2)
  IN  {<<c[1], mid>>, <<mid, c[2]>>}
Finished(c) == running[c].k >= c[2]
Unfinished == {c \in DOMAIN running : ~Finished(c)}
\* mutant of AllFinished: the call returns once every subrange was started
AllStarted == pending = {}
\* parallel_reduce / parallel_for return: every subrange was run to its end
AllFinished == pending = {} /\ Unfinished = {}
Restrict(f, S) == [c \in S |-> f[c]]

gstay == UNCHANGED mvars

(* ------------------------------ gauss ---------------------------------- *)
\* for (i ...) { double big = abs(A[i][i]); int row = i; parallel_reduce(...
LoopHead ==
  /\ pc = "loop"
  /\ i < n
  /\ big' = FAbs(At(i, i))
  /\ row' = i
  /\ pending' = pending \cup ReduceRange(i)
  /\ bigReaders' = {}
  /\ bigWriters' = {}
  /\ pc' = "reduce"
  /\ UNCHANGED <<n, M, buf, B, X, i, bi, running, red, rowWriters, sweep0, A0, B0>>
  /\ gstay

\* a divisible subrange is split by the partitioner
Split(c) ==
  /\ pc \in {"reduce", "elim"}
  /\ c \in pending
  /\ Divisible(c)
  /\ pending' = (pending \ {c}) \cup Halves(c)
  /\ UNCHANGED <<n, M, buf, B, X, i, bi, pc, big, row, running, red,
                 bigReaders, bigWriters, rowWriters, sweep0, A0, B0>>
  /\ gstay

\* the body lambda is entered on subrange c; its parameter row is the identity
ReduceStart(c) ==
  /\ pc = "reduce"
  /\ c \in pending
  /\ pending' = pending \ {c}
  /\ running' = (c :> [kind |-> "reduce", col |-> i, k |-> c[1], st |-> "cmp", row |-> 0])
                  @@ running
  /\ UNCHANGED <<n, M, buf, B, X, i, bi, pc, big, row, red,
                 bigReaders, bigWriters, rowWriters, sweep0, A0, B0>>
  /\ gstay

\* if (abs(A[k][i]) > big): the read of the shared big
ReduceCmp(c) ==
  /\ c \in DOMAIN running
  /\ running[c].kind = "reduce"
  /\ running[c].st = "cmp"
  /\ ~Finished(c)
  /\ bigReaders' = bigReaders \cup {c}
  /\ running' = [running EXCEPT ![c] =
       IF FGt(FAbs(At(@.k, i)), big) THEN [@ EXCEPT !.st = "wr"]
       ELSE [@ EXCEPT !.k = @ + 1]]
  /\ UNCHANGED <<n, M, buf, B, X, i, bi, pc, big, row, pending, red,
                 bigWriters, rowWriters, sweep0, A0, B0>>
  /\ gstay

\* big = abs(A[k][i]); row = k;  -- row is the lambda's own parameter
ReduceWrite(c) ==
  /\ c \in DOMAIN running
  /\ running[c].kind = "reduce"
  /\ running[c].st = "wr"
  /\ big' = FAbs(At(running[c].k, i))
  /\ bigWriters' = bigWriters \cup {c}
  /\ running' = [running EXCEPT ![c] =
       [@ EXCEPT !.row = running[c].k, !.k = @ + 1, !.st = "cmp"]]
  /\ UNCHANGED <<n, M, buf, B, X, i, bi, pc, row, pending, red,
                 bigReaders, rowWriters, sweep0, A0, B0>>
  /\ gstay

\* the value parallel_reduce returns: the bodies' results joined left to right
RECURSIVE JoinFrom(_, _)
JoinFrom(b, acc) ==
  IF \E c \in DOMAIN running : c[1] = b
  THEN LET c == CHOOSE d \in DOMAIN running : d[1] = b
       IN  JoinFrom(c[2], Combine(acc, running[c].row))
  ELSE acc

\* parallel_reduce returns
ReduceJoin ==
  /\ pc = "reduce"
  /\ AllFinished
  /\ red' = IF DOMAIN running = {} THEN 0
            ELSE LET f == CHOOSE c \in DOMAIN running : c[1] = i + 1
                 IN  JoinFrom(f[2], running[f].row)
  /\ running' = Restrict(running, Unfinished)
  /\ pc' = "check"
  /\ UNCHANGED <<n, M, buf, B, X, i, bi, big, row, pending,
                 bigReaders, bigWriters, rowWriters, sweep0, A0, B0>>
  /\ gstay

\* if (big == 0.0) { cout << "The matrix is singular!"; exit(-1); }
SingularExit ==
  /\ pc = "check"
  /\ FEq(big, Zero)
  /\ pc' = "singular"
  /\ out' = Append(out, "The matrix is singular!")
  /\ UNCHANGED gvars_but_pc
  /\ UNCHANGED <<mpc, seed, size, range, verbose, docheck, parallel, nargs, gaussRan>>

\* std::swap(A[i], A[row]); std::swap(B[i], B[row]); parallel_for(...
PivotSwap ==
  /\ pc = "check"
  /\ ~FEq(big, Zero)
  /\ M' = SwapAt(M, i, row)
  /\ B' = SwapAt(B, i, row)
  /\ pending' = pending \cup ElimRange(i)
  /\ rowWriters' = [r \in Idx |-> {}]
  /\ sweep0' = [buf |-> buf, B |-> B']
  /\ pc' = "elim"
  /\ UNCHANGED <<n, buf, X, i, bi, big, row, running, red,
                 bigReaders, bigWriters, A0, B0>>
  /\ gstay

\* the parallel_for body is entered on subrange c
ElimStart(c) ==
  /\ pc = "elim"
  /\ c \in pending
  /\ pending' = pending \ {c}
  /\ running' = (c :> [kind |-> "elim", col |-> i, k |-> c[1], st |-> "run", row |-> 0])
                  @@ running
  /\ UNCHANGED <<n, M, buf, B, X, i, bi, pc, big, row, red,
                 bigReaders, bigWriters, rowWriters, sweep0, A0, B0>>
  /\ gstay

\* one iteration of the k loop of the body: row k and B[k]
ElimRow(c) ==
  /\ c \in DOMAIN running
  /\ running[c].kind = "elim"
  /\ ~Finished(c)
  /\ LET k == running[c].k
     IN  /\ buf' = ElimRowBuf(M, buf, n, i, k)
         /\ B' = ElimRowB(M, buf, B, i, k)
         /\ rowWriters' = [rowWriters EXCEPT ![k] = @ \cup {c}]
  /\ running' = [running EXCEPT ![c].k = @ + 1]
  /\ UNCHANGED <<n, M, X, i, bi, pc, big, row, pending, red,
                 bigReaders, bigWriters, sweep0, A0, B0>>
  /\ gstay

\* parallel_for returns; ++i
ElimJoin ==
  /\ pc = "elim"
  /\ AllFinished
  /\ running' = Restrict(running, Unfinished)
  /\ i' = i + 1
  /\ pc' = "loop"
  /\ UNCHANGED <<n, M, buf, B, X, bi, big, row, pending, red,
                 bigReaders, bigWriters, rowWriters, sweep0, A0, B0>>
  /\ gstay

\* the elimination loop ends: for (int i = A.getSize() - 1; ...
LoopExit ==
  /\ pc = "loop"
  /\ i >= n
  /\ bi' = n - 1
  /\ pc' = "backsub"
  /\ UNCHANGED <<n, M, buf, B, X, i, big, row, pending, running, red,
                 bigReaders, bigWriters, rowWriters, sweep0, A0, B0>>
  /\ gstay

\* X[i] = B[i] / A[i][i]; for (k ...) B[k] -= A[k][i] * X[i];
BackSubst ==
  /\ pc = "backsub"
  /\ bi >= 0
  /\ LET s == BackStep(M, buf, B, X, bi)
     IN  X' = s.X /\ B' = s.B
  /\ bi' = bi - 1
  /\ UNCHANGED <<n, M, buf, i, pc, big, row, pending, running, red,
                 bigReaders, bigWriters, rowWriters, sweep0, A0, B0>>
  /\ gstay

\* gauss returns
GaussReturn ==
  /\ pc = "backsub"
  /\ bi < 0
  /\ pc' = "done"
  /\ UNCHANGED gvars_but_pc
  /\ gstay

Next ==
  \/ LoopHead
  \/ \E c \in pending : Split(c)
  \/ \E c \in pending : ReduceStart(c)
  \/ \E c \in DOMAIN running : ReduceCmp(c)
  \/ \E c \in DOMAIN running : ReduceWrite(c)
  \/ ReduceJoin
  \/ SingularExit
  \/ PivotSwap
  \/ \E c \in pending : ElimStart(c)
  \/ \E c \in DOMAIN running : ElimRow(c)
  \/ ElimJoin
  \/ LoopExit
  \/ BackSubst
  \/ GaussReturn

Spec == Init /\ [][Next]_vars

(* ======================= properties of gauss (Spec) ==================== *)
FGe(a, b) == FGt(a, b) \/ FEq(a, b)
ColumnAllZero(col) == \A k \in col .. (n - 1) : At(k, col) = Zero
NothingEliminated == \A r \in Idx : rowWriters[r] = {}
L0 == Logical(M, buf)

\* C1: after the pivot search and the row swap of step i, before the sweep
\* starts, |A[i][i]| >= |A[k][i]| for every k in i+1..n-1.
C1_PivotIsColumnMax ==
  (pc = "elim" /\ NothingEliminated) =>
    \A k \in (i + 1) .. (n - 1) : FGe(FAbs(At(i, i)), FAbs(At(k, i)))

\* C2: gauss reports singularity at column i exactly when every A[k][i],
\* k in i..n-1, is 0 at the start of step i: the test after the search
\* decides "singular" iff the column is all zero, an abort happens only on an
\* all-zero column and the sweep is entered only on a column that is not.
C2_SingularIffZeroColumn ==
  /\ pc = "check" => (FEq(big, Zero) <=> ColumnAllZero(i))
  /\ pc = "singular" => ColumnAllZero(i)
  /\ (pc = "elim" /\ NothingEliminated) => ~ColumnAllZero(i)

C2_Witness ==
  /\ pc = "singular"
  /\ i = 0
  /\ n = 2
  /\ L0 = (0 :> (0 :> R(0) @@ 1 :> R(1)) @@ 1 :> (0 :> R(0) @@ 1 :> R(1)))

\* C3: every column whose sweep has completed (c < i) is 0 below the
\* diagonal, in every later state of the run; at the end A is upper
\* triangular.
C3_Triangular ==
  /\ \A c \in 0 .. (i - 1) : \A k \in (c + 1) .. (n - 1) : At(k, c) = Zero
  /\ pc \in {"backsub", "done"} =>
       \A c \in Idx : \A k \in (c + 1) .. (n - 1) : At(k, c) = Zero

C3_Witness ==
  /\ pc = "done"
  /\ n >= 3
  /\ \A c \in Idx : \A k \in (c + 1) .. (n - 1) : A0[k][c] # Zero

\* C4: when gauss does not report singularity, the X it produces satisfies
\* A*X = B for the system it was given, and check() reports success.
C4_SolvesSystem ==
  pc = "done" =>
    /\ \A r \in Idx : MatRow(IdHandles(n), A0, X, n, r) = B0[r]
    /\ Check(IdHandles(n), A0, B0, X, n) = -1

\* the textbook system of the specification is solved to X = [2, 3, -1]
TextbookSolved ==
  (pc = "done" /\ A0 = Textbook.A /\ B0 = Textbook.B) =>
    X = (0 :> R(2) @@ 1 :> R(3) @@ 2 :> R(-1))

\* C7: the tasks of one pivot search share no mutable state (a task that
\* writes a variable is the only task to read or write it), and the pivot
\* record is the one a single thread computes.
C7_TasksShareNothing ==
  /\ \A t \in bigWriters : (bigReaders \cup bigWriters) \subseteq {t}
  /\ pc = "check" =>
       big = SeqBig(M, buf, n, i, i + 1, FAbs(At(i, i)))

\* C8: in the sweep of column i every row k > i (and B[k]) is written by
\* exactly one task, the one whose subrange holds k; rows 0..i and B[0..i]
\* are not written; and when the sweep ends A and B are those of the
\* sequential sweep k = i+1..n-1.
C8_SweepOwnership ==
  pc = "elim" =>
    /\ \A r \in Idx : Cardinality(rowWriters[r]) <= 1
    /\ \A r \in Idx : \A c \in rowWriters[r] : c[1] <= r /\ r < c[2] /\ r > i
    /\ \A r \in 0 .. i : buf[M[r]] = sweep0.buf[M[r]] /\ B[r] = sweep0.B[r]
    /\ (pending = {} /\ Unfinished = {}) =>
         /\ \A r \in (i + 1) .. (n - 1) : Cardinality(rowWriters[r]) = 1
         /\ buf = SweepSeq(M, sweep0.buf, sweep0.B, n, i, i + 1).buf
         /\ B = SweepSeq(M, sweep0.buf, sweep0.B, n, i, i + 1).B

C8_Witness ==
  /\ pc = "elim"
  /\ pending = {}
  /\ Unfinished = {}
  /\ Cardinality(DOMAIN running) >= 2
  /\ \E r \in (i + 1) .. (n - 1) : buf[M[r]] # sweep0.buf[M[r]]

\* C9: columns advance one at a time and only when every elimination task
\* of the column has finished; the singularity test and the swap come only
\* after every pivot-search task has finished; tasks exist only inside
\* their own phase of their own column; back substitution starts only after
\* the last column.
C9_TasksInPhase ==
  /\ \A c \in DOMAIN running : running[c].kind = pc /\ running[c].col = i
  /\ (pending # {} \/ DOMAIN running # {}) => pc \in {"reduce", "elim"}
  /\ \A c \in pending \cup DOMAIN running : i + 1 <= c[1] /\ c[2] <= n
  /\ pc \in {"backsub", "done"} => i = n

C9_Steps ==
  /\ i' # i => (i' = i + 1 /\ pc = "elim" /\ pending = {} /\ Unfinished = {})
  /\ (pc' = "check" /\ pc # "check") => (pc = "reduce" /\ pending = {} /\ Unfinished = {})
  /\ (pc' = "elim" /\ pc # "elim") => pc = "check"
  /\ (pc' = "reduce" /\ pc # "reduce") => (pc = "loop" /\ DOMAIN running = {})
  /\ X' # X => (pc = "backsub" /\ i = n)

C9_PhaseOrdering == [](C9_TasksInPhase) /\ [][C9_Steps]_vars

C9_Witness ==
  /\ pc = "backsub"
  /\ n >= 4
  /\ bi = 0

\* C10: the pivot is not 0 when the factor c = -A[k][i] / A[i][i] is
\* computed for a row k > i, nor when X[i] = B[i] / A[i][i] is computed.
C10_NoZeroPivot ==
  /\ (pc = "elim" /\ i + 1 < n) => At(i, i) # Zero
  /\ (pc = "backsub" /\ bi >= 0) => At(bi, bi) # Zero

(* =============================== main ================================== *)
(* std::mt19937(seed) with uniform_real_distribution is modelled as a     *)
(* small congruential stream: what is kept is that the stream is a         *)
(* function of the seed alone, built anew by every call, and that a draw   *)
(* is a function of the stream position and of range.  With `unsigned int  *)
(* range`, -range wraps, so the draws lie above range (all 0 for range 0); *)
(* their magnitudes are abstracted to a few small integers.                *)
LcgNext(s) == (5 * s + 3) % 16
RECURSIVE Stream(_, _)
Stream(sd, k) == IF k = 0 THEN LcgNext(sd % 16) ELSE LcgNext(Stream(sd, k - 1))
\* the k-th value mt_rand() returns
Draw(sd, rng, k) == IF rng = 0 THEN 0 ELSE rng + 1 + (Stream(sd, k) % 3)

\* what new double[n] may hold
Garbage == {Zero, R(1), NaN}

RowOf(m, h) == CHOOSE r \in DOMAIN m : m[r] = h

\* mutant of InitializeFromSeed: the draws are added to what A and B hold
InitializeAccumulating(sd, rng, m, bf, b, dim) ==
  [buf |-> [h \in DOMAIN bf |-> [c \in 0 .. (dim - 1) |->
              FAdd(bf[h][c], R(Draw(sd, rng, RowOf(m, h) * dim + c)))]],
   B   |-> [r \in DOMAIN b |-> FAdd(b[r], R(Draw(sd, rng, dim * dim + r)))]]

\* initializeFromSeed(seed, A, B, range): A row-major through the row
\* handles, then B, from one fresh generator
InitializeFromSeed(sd, rng, m, bf, b, dim) ==
  [buf |-> [h \in DOMAIN bf |-> [c \in 0 .. (dim - 1) |->
              R(Draw(sd, rng, RowOf(m, h) * dim + c))]],
   B   |-> [r \in DOMAIN b |-> R(Draw(sd, rng, dim * dim + r))]]

\* mutant of RunsGauss: the parallel flag is not consulted
RunsGaussAlways == TRUE
\* if (parallel) ... else gauss(A, B, X);
RunsGauss == ~parallel

GaussIdle ==
  /\ i = 0
  /\ bi = -1
  /\ pc = "idle"
  /\ big = Zero
  /\ row = 0
  /\ pending = {}
  /\ running = NoTasks
  /\ red = 0
  /\ bigReaders = {}
  /\ bigWriters = {}
  /\ rowWriters = <<>>
  /\ sweep0 = [buf |-> <<>>, B |-> <<>>]

ginternals == <<i, bi, pc, big, row, pending, running, red,
                bigReaders, bigWriters, rowWriters, sweep0>>
data == <<n, M, buf, B, X, A0, B0>>
config == <<seed, size, range, verbose, docheck, parallel>>

MainInit ==
  /\ mpc = "parse"
  /\ seed = DefaultSeed
  /\ size = DefaultSize
  /\ range = DefaultRange
  /\ verbose = FALSE
  /\ docheck = TRUE
  /\ parallel = FALSE
  /\ nargs = 0
  /\ gaussRan = FALSE
  /\ out = <<>>
  /\ n = 0
  /\ M = <<>>
  /\ buf = <<>>
  /\ B = <<>>
  /\ X = <<>>
  /\ A0 = <<>>
  /\ B0 = <<>>
  /\ GaussIdle

Parsing == mpc = "parse" /\ nargs < MaxArgs

\* case 'r': seed = atoi(optarg);
OptSeed(v) ==
  /\ Parsing
  /\ seed' = v
  /\ nargs' = nargs + 1
  /\ UNCHANGED <<mpc, size, range, verbose, docheck, parallel, gaussRan, out,
                 data, ginternals>>

\* case 'n': size = atoi(optarg);
OptSize(v) ==
  /\ Parsing
  /\ size' = v
  /\ nargs' = nargs + 1
  /\ UNCHANGED <<mpc, seed, range, verbose, docheck, parallel, gaussRan, out,
                 data, ginternals>>

\* case 'g': range = atoi(optarg);
OptRange(v) ==
  /\ Parsing
  /\ range' = v
  /\ nargs' = nargs + 1
  /\ UNCHANGED <<mpc, seed, size, verbose, docheck, parallel, gaussRan, out,
                 data, ginternals>>

\* case 'h': usage();
OptHelp ==
  /\ Parsing
  /\ out' = Append(out, "usage")
  /\ nargs' = nargs + 1
  /\ UNCHANGED <<mpc, config, gaussRan, data, ginternals>>

\* case 'v': verbose = !verbose;
OptVerbose ==
  /\ Parsing
  /\ verbose' = ~verbose
  /\ nargs' = nargs + 1
  /\ UNCHANGED <<mpc, seed, size, range, docheck, parallel, gaussRan, out,
                 data, ginternals>>

\* case 'c': docheck = !docheck;
OptCheck ==
  /\ Parsing
  /\ docheck' = ~docheck
  /\ nargs' = nargs + 1
  /\ UNCHANGED <<mpc, seed, size, range, verbose, parallel, gaussRan, out,
                 data, ginternals>>

\* case 'p': parallel = !parallel;
OptParallel ==
  /\ Parsing
  /\ parallel' = ~parallel
  /\ nargs' = nargs + 1
  /\ UNCHANGED <<mpc, seed, size, range, verbose, docheck, gaussRan, out,
                 data, ginternals>>

\* default: usage(); exit(-1);
OptUnknown ==
  /\ Parsing
  /\ out' = Append(out, "usage")
  /\ mpc' = "exit"
  /\ nargs' = nargs + 1
  /\ UNCHANGED <<config, gaussRan, data, ginternals>>

\* getopt returns -1: the configuration line, the construction of A, B and
\* X, initializeFromSeed, and the verbose print of the system
\* (a system larger than MaxSize, or a range above MaxRange, is not built:
\* a run left at the defaults 2048 / 65536 is not followed further)
Setup ==
  /\ mpc = "parse"
  /\ size <= MaxSize
  /\ range <= MaxRange
  /\ \E g \in Garbage :
       LET d  == 0 .. (size - 1)
           s0 == InitializeFromSeed(seed, range, IdHandles(size),
                                    [h \in d |-> [c \in d |-> g]],
                                    [r \in d |-> g], size)
       IN  /\ n' = size
           /\ M' = IdHandles(size)
           /\ buf' = s0.buf
           /\ B' = s0.B
           /\ X' = [r \in d |-> g]
           /\ A0' = Logical(IdHandles(size), s0.buf)
           /\ B0' = s0.B
           /\ out' = (IF verbose
                      THEN out \o << <<"r,n,g,p", seed, size, range, parallel>>,
                                     <<"Matrix (A) | B", A0', B0'>> >>
                      ELSE Append(out, <<"r,n,g,p", seed, size, range, parallel>>))
  /\ mpc' = "solve"
  /\ UNCHANGED <<config, nargs, gaussRan, ginternals>>

\* if (parallel) cout << "Parallel version not yet implemented"
SolveNotImplemented ==
  /\ mpc = "solve"
  /\ ~RunsGauss
  /\ out' = Append(out, "Parallel version not yet implemented")
  /\ mpc' = "print"
  /\ UNCHANGED <<config, nargs, gaussRan, data, ginternals>>

\* else gauss(A, B, X), which returns
SolveGauss ==
  /\ mpc = "solve"
  /\ RunsGauss
  /\ LET g == GaussRun(M, buf, B, X, n)
     IN  /\ ~g.sing
         /\ M' = g.M
         /\ buf' = g.buf
         /\ B' = g.B
         /\ X' = g.X
  /\ gaussRan' = TRUE
  /\ mpc' = "print"
  /\ UNCHANGED <<config, nargs, out, n, A0, B0, ginternals>>

\* else gauss(A, B, X), which ends the process: exit(-1)
SolveSingular ==
  /\ mpc = "solve"
  /\ RunsGauss
  /\ LET g == GaussRun(M, buf, B, X, n)
     IN  /\ g.sing
         /\ M' = g.M
         /\ buf' = g.buf
         /\ B' = g.B
  /\ out' = Append(out, "The matrix is singular!")
  /\ mpc' = "exit"
  /\ UNCHANGED <<config, nargs, gaussRan, n, X, A0, B0, ginternals>>

\* if (verbose) { "Result X"; every X[i] }
PrintResult ==
  /\ mpc = "print"
  /\ out' = IF verbose THEN Append(out, <<"Result X", X>>) ELSE out
  /\ mpc' = "verify"
  /\ UNCHANGED <<config, nargs, gaussRan, data, ginternals>>

\* if (docheck) { initializeFromSeed(seed, A, B, range); check(A, B, X); }
Verify ==
  /\ mpc = "verify"
  /\ docheck
  /\ LET s0 == InitializeFromSeed(seed, range, M, buf, B, n)
         v  == Check(M, s0.buf, s0.B, X, n)
     IN  /\ buf' = s0.buf
         /\ B' = s0.B
         /\ out' = Append(out, IF v = -1 THEN <<"Verification succeeded">>
                               ELSE <<"Verification failed for index", v>>)
  /\ mpc' = "finish"
  /\ UNCHANGED <<config, nargs, gaussRan, n, M, X, A0, B0, ginternals>>

SkipVerify ==
  /\ mpc = "verify"
  /\ ~docheck
  /\ mpc' = "finish"
  /\ UNCHANGED <<config, nargs, gaussRan, out, data, ginternals>>

\* the execution time line; main returns
Finish ==
  /\ mpc = "finish"
  /\ out' = Append(out, "Total execution time")
  /\ mpc' = "end"
  /\ UNCHANGED <<config, nargs, gaussRan, data, ginternals>>

MainNext ==
  \/ \E v \in 0 .. MaxSeed : OptSeed(v)
  \/ \E v \in 0 .. MaxSize : OptSize(v)
  \/ \E v \in 0 .. MaxRange : OptRange(v)
  \/ OptHelp
  \/ OptVerbose
  \/ OptCheck
  \/ OptParallel
  \/ OptUnknown
  \/ Setup
  \/ SolveNotImplemented
  \/ SolveGauss
  \/ SolveSingular
  \/ PrintResult
  \/ Verify
  \/ SkipVerify
  \/ Finish

SpecMain == MainInit /\ [][MainNext]_vars

(* ======================= properties of main (SpecMain) ================= *)
PastSolve == mpc \in {"print", "verify", "finish", "end"}
SeedMatrix(sd, rng, dim) ==
  [r \in 0 .. (dim - 1) |-> [c \in 0 .. (dim - 1) |-> R(Draw(sd, rng, r * dim + c))]]
SeedVector(sd, rng, dim) ==
  [r \in 0 .. (dim - 1) |-> R(Draw(sd, rng, dim * dim + r))]

\* C5 as stated: whatever the value of the -p flag, gauss(A, B, X) has been
\* executed before the result is printed or verified.
C5_GaussAlwaysRuns == PastSolve => gaussRan

\* C5 amended: past the solve step, gauss has been executed exactly when
\* parallel is false, and then X is the back-substituted solution; when
\* parallel is true main has printed "Parallel version not yet implemented"
\* instead and X is as it was allocated.
C5_GaussRunsIffNotParallel ==
  PastSolve =>
    /\ gaussRan <=> ~parallel
    /\ ~parallel => X = GaussRun(IdHandles(n), A0, B0, X, n).X
    /\ parallel =>
         /\ \E k \in DOMAIN out : out[k] = "Parallel version not yet implemented"
         /\ \E g \in Garbage : X = [r \in Idx |-> g]

C5_Witness ==
  /\ mpc = "end"
  /\ parallel
  /\ docheck
  /\ n >= 2
  /\ ~gaussRan

====
